---------------------------- MODULE Spec2Model ----------------------------
(***************************************************************************)
(* Model of etc/scripts/update_copyright_years.py: file selection          *)
(* (get_file_paths), pattern construction (MatchPattern), the first-match  *)
(* replacement (replace_copyright_years) and the per-file update loop      *)
(* (update_copyright_years, main).                                         *)
(*                                                                         *)
(* Python strings are sequences of one-character strings.  A regular       *)
(* expression is kept in compiled form: a sequence of tokens, each an      *)
(* atom (a character class repeated n times), a group opening, a group     *)
(* closing or the closing of an optional group "(...)?".                   *)
(***************************************************************************)
EXTENDS Integers, Sequences, FiniteSets, TLC

(***************************************************************************)
(* Characters, decimal formatting and parsing                              *)
(***************************************************************************)
DigitSeq == <<"0", "1", "2", "3", "4", "5", "6", "7", "8", "9">>

Digits == {DigitSeq[i] : i \in 1..Len(DigitSeq)}

AsciiLetters ==
    {"a", "b", "c", "d", "e", "f", "g", "h", "i", "j", "k", "l", "m",
     "n", "o", "p", "q", "r", "s", "t", "u", "v", "w", "x", "y", "z",
     "A", "B", "C", "D", "E", "F", "G", "H", "I", "J", "K", "L", "M",
     "N", "O", "P", "Q", "R", "S", "T", "U", "V", "W", "X", "Y", "Z"}

DigitChar(d) == DigitSeq[d + 1]

DigitVal(c) == CHOOSE d \in 0..9 : DigitSeq[d + 1] = c

\* time.strftime('%Y', ...) and git's --date=format-local:%Y: the decimal
\* digits of the year.
RECURSIVE FormatYear(_)
FormatYear(n) ==
    IF n < 10 THEN <<DigitChar(n)>>
    ELSE FormatYear(n \div 10) \o <<DigitChar(n % 10)>>

\* int(s) for a string of decimal digits.
RECURSIVE int(_)
int(s) ==
    IF Len(s) = 0 THEN 0
    ELSE 10 * int(SubSeq(s, 1, Len(s) - 1)) + DigitVal(s[Len(s)])

\* Concatenation of a sequence of strings.
RECURSIVE Concat(_)
Concat(ss) == IF Len(ss) = 0 THEN <<>> ELSE ss[1] \o Concat(Tail(ss))

\* An optional value (Python None or a value): the empty sequence or a
\* one-element sequence.
None == <<>>

Some(v) == <<v>>

(***************************************************************************)
(* Compiled regular expressions                                            *)
(***************************************************************************)
Atom(cs, n) == [k |-> "atom", cs |-> cs, n |-> n]

Lit(c) == Atom({c}, 1)

Open == [k |-> "(", cs |-> {}, n |-> 0]

Close == [k |-> ")", cs |-> {}, n |-> 0]

CloseOpt == [k |-> ")?", cs |-> {}, n |-> 0]

\* A variant without the optional second year: r'([12]\d{3})'
DEFAULT_YEARS_SINGLE == << Open, Atom({"1", "2"}, 1), Atom(Digits, 3), Close >>

\* r'([12]\d{3})(-[12]\d{3})?'
DEFAULT_YEARS_PATTERN ==
    << Open, Atom({"1", "2"}, 1), Atom(Digits, 3), Close,
       Open, Lit("-"), Atom({"1", "2"}, 1), Atom(Digits, 3), CloseOpt >>

\* re.escape: every character of the literal matches itself only.
\* The characters "." stands for in a regex: any but the newline.
AnyChar == Digits \cup AsciiLetters \cup {" ", "-", ".", "_", "/", "\\"}

\* A variant that leaves a "." of the literal as the regex metacharacter.
re_escape_less(s) ==
    [i \in 1..Len(s) |-> IF s[i] = "." THEN Atom(AnyChar, 1) ELSE Lit(s[i])]

re_escape(s) == [i \in 1..Len(s) |-> Lit(s[i])]

\* Number of capturing groups opened in pat[1..t].
RECURSIVE GroupNo(_, _)
GroupNo(pat, t) ==
    IF t = 0 THEN 0
    ELSE GroupNo(pat, t - 1) + (IF pat[t].k = "(" THEN 1 ELSE 0)

\* Index of the token closing the group opened at t (depth d open so far).
RECURSIVE CloseFrom(_, _, _)
CloseFrom(pat, t, d) ==
    IF pat[t].k = "(" THEN CloseFrom(pat, t + 1, d + 1)
    ELSE IF pat[t].k \in {")", ")?"}
         THEN IF d = 1 THEN t ELSE CloseFrom(pat, t + 1, d - 1)
         ELSE CloseFrom(pat, t + 1, d)

CloseOf(pat, t) == CloseFrom(pat, t + 1, 1)

NoMatch == [ok |-> FALSE, end |-> 0, caps |-> <<>>]

\* Backtracking match of pat[t..] against s from position p (1-based), in
\* the priority order of Python's engine: an optional group is tried first
\* with its content (greedy), then without.  caps[g] = <<start, end>> is the
\* span s[start..end-1] of group g, <<0, 0>> when the group did not take part.
RECURSIVE MatchFrom(_, _, _, _, _, _)
MatchFrom(pat, s, t, p, caps, stk) ==
    IF t > Len(pat) THEN [ok |-> TRUE, end |-> p, caps |-> caps]
    ELSE LET tok == pat[t] IN
         CASE tok.k = "atom" ->
                IF /\ p + tok.n - 1 <= Len(s)
                   /\ \A j \in 0..(tok.n - 1) : s[p + j] \in tok.cs
                THEN MatchFrom(pat, s, t + 1, p + tok.n, caps, stk)
                ELSE NoMatch
           [] tok.k = "(" ->
                LET g == GroupNo(pat, t)
                    c == CloseOf(pat, t)
                    inside == MatchFrom(pat, s, t + 1, p, caps, <<(<<g, p>>)>> \o stk)
                IN  IF pat[c].k = ")?" /\ ~inside.ok
                    THEN MatchFrom(pat, s, c + 1, p, caps, stk)
                    ELSE inside
           [] OTHER ->
                LET g == stk[1][1]
                    st == stk[1][2]
                IN  MatchFrom(pat, s, t + 1, p,
                              [caps EXCEPT ![g] = <<st, p>>], Tail(stk))

NoCaps(pat) == [g \in 1..GroupNo(pat, Len(pat)) |-> <<0, 0>>]

MatchAt(pat, s, i) == MatchFrom(pat, s, 1, i, NoCaps(pat), <<>>)

\* re.search(pat, s) restricted to start positions >= from: the leftmost
\* match.
SearchFrom(pat, s, from) ==
    LET starts == {i \in from..(Len(s) + 1) : MatchAt(pat, s, i).ok}
    IN  IF starts = {} THEN [found |-> FALSE, start |-> 0, end |-> 0, caps |-> <<>>]
        ELSE LET i == CHOOSE i \in starts : \A j \in starts : i <= j
                 m == MatchAt(pat, s, i)
             IN  [found |-> TRUE, start |-> i, end |-> m.end, caps |-> m.caps]

re_search(pat, s) == SearchFrom(pat, s, 1)

\* match[g]: the text of group g ("" here for a group that took no part).
Group(s, m, g) == SubSeq(s, m.caps[g][1], m.caps[g][2] - 1)


(***************************************************************************)
(* Replacement templates (the repl argument of re.sub)                     *)
(***************************************************************************)
\* The escapes a template turns into one character.
Escapes == {"a", "b", "f", "n", "r", "t", "v", "\\"}

EscapeChar(c) ==
    CASE c = "n" -> "\n"
      [] c = "t" -> "\t"
      [] c = "r" -> "\r"
      [] c = "f" -> "\f"
      [] c = "\\" -> "\\"
      [] c = "a" -> "BEL"
      [] c = "b" -> "BS"
      [] OTHER -> "VT"

TemplateError == [err |-> TRUE, parts |-> <<>>]

\* A template part: a literal character (g = 0) or a reference to group g.
LitPart(c) == [g |-> 0, c |-> c]

RefPart(g) == [g |-> g, c |-> ""]

\* The template parser: a backslash starts a group reference (\1, \12), a
\* known escape, an error (end of template, an unknown escape of an ASCII
\* letter, a reference to a group the pattern does not have) or, before any
\* other character, stays as it is.
RECURSIVE ParseTemplate(_, _, _)
ParseTemplate(repl, i, ngroups) ==
    IF i > Len(repl) THEN [err |-> FALSE, parts |-> <<>>]
    ELSE
    LET then(parts, j) ==
            LET rest == ParseTemplate(repl, j, ngroups)
            IN  IF rest.err THEN TemplateError
                ELSE [err |-> FALSE, parts |-> parts \o rest.parts]
    IN  IF repl[i] # "\\" THEN then(<<LitPart(repl[i])>>, i + 1)
        ELSE IF i = Len(repl) THEN TemplateError
        ELSE LET c == repl[i + 1] IN
             IF c = "0" THEN then(<<LitPart("NUL")>>, i + 2)
             ELSE IF c \in Digits
             THEN LET two == i + 2 <= Len(repl) /\ repl[i + 2] \in Digits
                      g == IF two THEN 10 * DigitVal(c) + DigitVal(repl[i + 2])
                           ELSE DigitVal(c)
                  IN  IF g > ngroups THEN TemplateError
                      ELSE then(<<RefPart(g)>>, IF two THEN i + 3 ELSE i + 2)
             ELSE IF c \in Escapes THEN then(<<LitPart(EscapeChar(c))>>, i + 2)
             ELSE IF c \in AsciiLetters THEN TemplateError
             ELSE then(<<LitPart("\\"), LitPart(c)>>, i + 2)

\* The text a parsed template stands for, given a match m in s.
Expand(parts, s, m) ==
    Concat([i \in 1..Len(parts) |->
              IF parts[i].g = 0 THEN <<parts[i].c>>
              ELSE Group(s, m, parts[i].g)])

\* The substitution loop of re.sub: the non-overlapping matches from the
\* left, at most count of them (count = 0: all).
RECURSIVE SubLoop(_, _, _, _, _, _)
SubLoop(pat, parts, s, from, count, done) ==
    LET m == SearchFrom(pat, s, from)
    IN  IF (count # 0 /\ done >= count) \/ from > Len(s) + 1 \/ ~m.found
        THEN SubSeq(s, from, Len(s))
        ELSE SubSeq(s, from, m.start - 1) \o Expand(parts, s, m) \o
             (IF m.end > m.start
              THEN SubLoop(pat, parts, s, m.end, count, done + 1)
              ELSE SubSeq(s, m.start, m.start) \o
                   SubLoop(pat, parts, s, m.start + 1, count, done + 1))

\* re.sub(pat, repl, s, count=count): the template is parsed first, whether
\* or not the pattern matches.
re_sub(pat, repl, s, count) ==
    LET tpl == ParseTemplate(repl, 1, GroupNo(pat, Len(pat)))
    IN  IF tpl.err THEN [err |-> TRUE, string |-> <<>>]
        ELSE [err |-> FALSE, string |-> SubLoop(pat, tpl.parts, s, 1, count, 0)]

(***************************************************************************)
(* class MatchPattern                                                      *)
(***************************************************************************)
\* MatchPattern.__init__(years, appendix, prependix); appendix and prependix
\* are optional strings.
\* A variant that does not wrap the years regex in a group of its own.
MatchPattern_ungrouped(years, appendix, prependix) ==
    [match_pattern |->
        (IF prependix # None THEN re_escape(prependix[1]) \o <<Lit(" ")>> ELSE <<>>)
        \o years \o
        (IF appendix # None THEN <<Lit(" ")>> \o re_escape(appendix[1]) ELSE <<>>),
     prependix_repl |-> IF prependix # None THEN prependix[1] \o <<" ">> ELSE <<>>,
     appendix_repl |-> IF appendix # None THEN <<" ">> \o appendix[1] ELSE <<>>]

MatchPattern(years, appendix, prependix) ==
    [match_pattern |->
        (IF prependix # None THEN re_escape(prependix[1]) \o <<Lit(" ")>> ELSE <<>>)
        \o <<Open>> \o years \o <<Close>> \o
        (IF appendix # None THEN <<Lit(" ")>> \o re_escape(appendix[1]) ELSE <<>>),
     prependix_repl |-> IF prependix # None THEN prependix[1] \o <<" ">> ELSE <<>>,
     appendix_repl |-> IF appendix # None THEN <<" ">> \o appendix[1] ELSE <<>>]

match_pattern(self) == self.match_pattern

\* A variant that leaves the prepend literal out of the replacement.
replace_pattern_bare(self, years) == years \o self.appendix_repl

replace_pattern(self, years) == self.prependix_repl \o years \o self.appendix_repl

(***************************************************************************)
(* replace_copyright_years                                                 *)
(***************************************************************************)
\* A variant that replaces every match (count=0).
replace_copyright_years_all(string, years, matching_opts) ==
    LET pat == match_pattern(matching_opts)
        repl == replace_pattern(matching_opts, years)
        match == re_search(pat, string)
    IN  IF ~match.found
        THEN [status |-> "ok", string |-> string, replaced_years |-> None]
        ELSE LET sub == re_sub(pat, repl, string, 0)
             IN  IF sub.err
                 THEN [status |-> "re.error", string |-> <<>>, replaced_years |-> None]
                 ELSE [status |-> "ok", string |-> sub.string,
                       replaced_years |-> Some(Group(string, match, 1))]

\* A variant without the test for a missing match: match[1] on None raises
\* TypeError.
replace_copyright_years_unchecked(string, years, matching_opts) ==
    LET pat == match_pattern(matching_opts)
        repl == replace_pattern(matching_opts, years)
        match == re_search(pat, string)
        sub == re_sub(pat, repl, string, 1)
    IN  IF ~match.found
        THEN [status |-> "TypeError", string |-> <<>>, replaced_years |-> None]
        ELSE IF sub.err
        THEN [status |-> "re.error", string |-> <<>>, replaced_years |-> None]
        ELSE [status |-> "ok", string |-> sub.string,
              replaced_years |-> Some(Group(string, match, 1))]

\* The pair (string, replaced years) the function returns, or the re.error
\* that re.sub raises on a bad template.
replace_copyright_years(string, years, matching_opts) ==
    LET pat == match_pattern(matching_opts)
        repl == replace_pattern(matching_opts, years)
        match == re_search(pat, string)
    IN  IF ~match.found
        THEN [status |-> "ok", string |-> string, replaced_years |-> None]
        ELSE LET sub == re_sub(pat, repl, string, 1)
             IN  IF sub.err
                 THEN [status |-> "re.error", string |-> <<>>, replaced_years |-> None]
                 ELSE [status |-> "ok", string |-> sub.string,
                       replaced_years |-> Some(Group(string, match, 1))]

(***************************************************************************)
(* Paths and the working tree                                              *)
(***************************************************************************)
\* The components of a path: the pieces between separators.
RECURSIVE Split(_, _)
Split(s, sep) ==
    IF \A i \in 1..Len(s) : s[i] # sep THEN <<s>>
    ELSE LET i == CHOOSE i \in 1..Len(s) :
                    s[i] = sep /\ \A j \in 1..(i - 1) : s[j] # sep
         IN  <<SubSeq(s, 1, i - 1)>> \o Split(SubSeq(s, i + 1, Len(s)), sep)

\* os.path.join(*comps) for relative components.
RECURSIVE Join(_)
Join(comps) ==
    IF Len(comps) = 0 THEN <<>>
    ELSE IF Len(comps) = 1 THEN comps[1]
    ELSE comps[1] \o <<"/">> \o Join(Tail(comps))

\* The components of the working directory (os.getcwd()).
Cwd == << <<"w">> >>

\* os.path.normpath on a list of components of an absolute path: empty and
\* "." components are dropped, ".." removes the component before it.
RECURSIVE NormComps(_, _)
NormComps(comps, acc) ==
    IF Len(comps) = 0 THEN acc
    ELSE LET c == comps[1] IN
         IF c = <<>> \/ c = <<".">> THEN NormComps(Tail(comps), acc)
         ELSE IF c = <<".", ".">>
         THEN NormComps(Tail(comps),
                        IF Len(acc) = 0 THEN acc ELSE SubSeq(acc, 1, Len(acc) - 1))
         ELSE NormComps(Tail(comps), Append(acc, c))

\* os.path.abspath(path), as components.
abspath(path) ==
    IF Len(path) > 0 /\ path[1] = "/" THEN NormComps(Split(path, "/"), <<>>)
    ELSE NormComps(Cwd \o Split(path, "/"), <<>>)

\* Length of the longest common prefix of two sequences.
RECURSIVE CommonLen(_, _)
CommonLen(a, b) ==
    IF Len(a) = 0 \/ Len(b) = 0 \/ a[1] # b[1] THEN 0
    ELSE 1 + CommonLen(Tail(a), Tail(b))

\* os.path.commonprefix([a, b]): character-wise (or item-wise).
commonprefix(a, b) == SubSeq(a, 1, CommonLen(a, b))

\* os.path.relpath(path): the path relative to the working directory; the
\* empty path is an error (ValueError), returned here as None.
relpath(path) ==
    IF Len(path) = 0 THEN None
    ELSE LET path_list == abspath(path)
             i == CommonLen(Cwd, path_list)
             rel_list == [j \in 1..(Len(Cwd) - i) |-> <<".", ".">>] \o
                         SubSeq(path_list, i + 1, Len(path_list))
         IN  Some(IF Len(rel_list) = 0 THEN <<".">> ELSE Join(rel_list))

\* Path literals.
p_src == <<"s", "r", "c">>

p_srcfoo == <<"s", "r", "c", "f", "o", "o">>

p_src_a == <<"s", "r", "c", "/", "a", ".", "p", "y">>

p_srcfoo_b == <<"s", "r", "c", "f", "o", "o", "/", "b", ".", "p", "y">>

p_readme == <<"R", "E", "A", "D", "M", "E">>

p_dot == <<".">>

p_dot_src == <<".", "/", "s", "r", "c">>

p_doc == <<"d", "o", "c">>

\* The paths of the working directory, relative to it, in listing order.
\* A working tree is the sequence of those that exist as regular files; git
\* knows all of them or only some (the others are untracked).
TreeFiles == <<p_readme, p_src_a, p_srcfoo_b>>

TreeSet == {TreeFiles[i] : i \in 1..Len(TreeFiles)}

\* os.path.isfile(path)
isfile(path, tree) ==
    /\ relpath(path) # None
    /\ \E i \in 1..Len(tree) : tree[i] = relpath(path)[1]

\* The components of a path below the working directory, none for "."
DirComps(path) == IF path = <<".">> THEN <<>> ELSE Split(path, "/")

\* os.path.isdir(path)
isdir(path, tree) ==
    /\ relpath(path) # None
    /\ LET d == DirComps(relpath(path)[1])
       IN  \E i \in 1..Len(tree) :
              LET fc == Split(tree[i], "/")
              IN  Len(fc) > Len(d) /\ SubSeq(fc, 1, Len(d)) = d

\* os.walk(path) followed by os.path.join(root_dir, file) for each file:
\* the files at any depth below path, each named path + "/" + the rest.
walk(path, tree) ==
    LET d == DirComps(relpath(path)[1])
        below(f) == LET fc == Split(f, "/")
                    IN  Len(fc) > Len(d) /\ SubSeq(fc, 1, Len(d)) = d
        name(f) == LET fc == Split(f, "/")
                   IN  path \o <<"/">> \o Join(SubSeq(fc, Len(d) + 1, Len(fc)))
        found == SelectSeq(tree, below)
    IN  [i \in 1..Len(found) |-> name(found[i])]

(***************************************************************************)
(* get_known_file_paths_git, expand_dir_paths, get_file_paths              *)
(***************************************************************************)
\* str.splitlines() for text whose only line boundary is "\n".
splitlines(s) ==
    LET parts == Split(s, "\n")
    IN  IF parts[Len(parts)] = <<>> THEN SubSeq(parts, 1, Len(parts) - 1) ELSE parts

\* The lines a subprocess writes: each followed by a newline.
Lines(ls) == Concat([i \in 1..Len(ls) |-> ls[i] \o <<"\n">>])

\* What get_file_paths hands back: the list it returns (with the candidate
\* list it filtered), or the exception it lets escape.
Returned(candidates, list) ==
    [status |-> "ok", file_paths |-> list, candidates |-> candidates, message |-> "",
     ran_git |-> FALSE]

Raises(what, message) ==
    [status |-> what, file_paths |-> <<>>, candidates |-> <<>>, message |-> message,
     ran_git |-> FALSE]

\* The same outcome, reached after `git ls-files` was run.
AfterGit(outcome) == [outcome EXCEPT !.ran_git = TRUE]

\* A variant that does not look at the return code.
get_known_file_paths_git_unchecked(proc) ==
    Returned(<<>>, splitlines(proc.stdout))

\* get_known_file_paths_git(), given the completed `git ls-files` process.
get_known_file_paths_git(proc) ==
    IF proc.returncode # 0 THEN Raises("Exception", proc.stderr)
    ELSE Returned(<<>>, splitlines(proc.stdout))

\* A variant that keeps the listed files and leaves directories out.
expand_dir_paths_flat(paths, tree) ==
    SelectSeq(paths, LAMBDA path : ~isdir(path, tree) /\ isfile(path, tree))

\* expand_dir_paths(paths)
RECURSIVE expand_dir_paths(_, _)
expand_dir_paths(paths, tree) ==
    IF Len(paths) = 0 THEN <<>>
    ELSE (IF isdir(paths[1], tree) THEN walk(paths[1], tree)
          ELSE IF isfile(paths[1], tree) THEN <<paths[1]>>
          ELSE <<>>) \o expand_dir_paths(Tail(paths), tree)

\* convert_to_relative_paths(paths): None when os.path.relpath raises.
convert_to_relative_paths(paths) ==
    IF \E i \in 1..Len(paths) : relpath(paths[i]) = None THEN None
    ELSE Some([i \in 1..Len(paths) |-> relpath(paths[i])[1]])

\* A hierarchy-aware variant: path2 is path1 or a directory above it.
has_commonprefix_hierarchy(path1, path2) ==
    LET c1 == Split(path1, "/")
        c2 == Split(path2, "/")
    IN  Len(c2) <= Len(c1) /\ SubSeq(c1, 1, Len(c2)) = c2

has_commonprefix(path1, path2) == commonprefix(path1, path2) # <<>>

InList(list, x) == \E i \in 1..Len(list) : list[i] = x

\* list.remove(x) for x in the list: the first occurrence goes.
ListRemove(list, x) ==
    LET i == CHOOSE i \in 1..Len(list) :
                list[i] = x /\ \A j \in 1..(i - 1) : list[j] # x
    IN  SubSeq(list, 1, i - 1) \o SubSeq(list, i + 1, Len(list))

\* The inner loop of the removal, for one file_path: every excluded path
\* that shares a prefix removes file_path from the list once more (the
\* `continue` goes on to the next excluded path); removing a path that is no
\* longer in the list raises ValueError, returned here as None.
RECURSIVE RemoveForEachExcluded(_, _, _, _)
RemoveForEachExcluded(list, file_path, excluded_paths, j) ==
    IF j > Len(excluded_paths) THEN Some(list)
    ELSE IF has_commonprefix(file_path, excluded_paths[j])
    THEN IF ~InList(list, file_path) THEN None
         ELSE RemoveForEachExcluded(ListRemove(list, file_path), file_path,
                                    excluded_paths, j + 1)
    ELSE RemoveForEachExcluded(list, file_path, excluded_paths, j + 1)

\* The outer loop, over a copy of the list.
RECURSIVE RemoveExcluded(_, _, _, _)
RemoveExcluded(list, copy, i, excluded_paths) ==
    IF i > Len(copy) THEN Some(list)
    ELSE LET r == RemoveForEachExcluded(list, copy[i], excluded_paths, 1)
         IN  IF r = None THEN None
             ELSE RemoveExcluded(r[1], copy, i + 1, excluded_paths)

\* A variant that asks git whatever the include list is.
get_file_paths_always_git(file_paths, excluded_paths, proc, tree) ==
    LET known == get_known_file_paths_git(proc)
        excl == convert_to_relative_paths(excluded_paths)
    IN  IF known.status # "ok" THEN AfterGit(known)
        ELSE IF excl = None THEN AfterGit(Raises("ValueError", "no path specified"))
        ELSE LET r == RemoveExcluded(known.file_paths, known.file_paths, 1, excl[1])
             IN  IF r = None
                 THEN AfterGit([Raises("ValueError", "list.remove(x): x not in list")
                                   EXCEPT !.candidates = known.file_paths])
                 ELSE AfterGit(Returned(known.file_paths, r[1]))

\* get_file_paths(file_paths, excluded_paths); proc is the `git ls-files`
\* process, run only when file_paths is None, and tree the working tree.
get_file_paths(file_paths, excluded_paths, proc, tree) ==
    LET known == get_known_file_paths_git(proc)
        rel == convert_to_relative_paths(file_paths[1])
        excl == convert_to_relative_paths(excluded_paths)
        finish(candidates) ==
            IF excl = None THEN Raises("ValueError", "no path specified")
            ELSE LET r == RemoveExcluded(candidates, candidates, 1, excl[1])
                 IN  IF r = None
                     THEN [Raises("ValueError", "list.remove(x): x not in list")
                              EXCEPT !.candidates = candidates]
                     ELSE Returned(candidates, r[1])
    IN  IF file_paths = None
        THEN IF known.status # "ok" THEN AfterGit(known)
             ELSE AfterGit(finish(known.file_paths))
        ELSE IF rel = None THEN Raises("ValueError", "no path specified")
        ELSE finish(expand_dir_paths(rel[1], tree))

(***************************************************************************)
(* get_current_year, update_copyright_years                                *)
(***************************************************************************)
\* A clock reading: the year in UTC and the year in the host's timezone.
Clock(utc, local) == [utc |-> utc, local |-> local]

\* time.gmtime()
gmtime(clock) == clock.utc

\* A variant that reads the host's local time.
get_current_year_local(clock) == FormatYear(clock.local)

\* get_current_year(), given the reading of the clock.
get_current_year(clock) == FormatYear(gmtime(clock))

\* Line 236: os.environ['TZ'] after the assignment, whatever it was before.
environ_TZ_host(tz) == tz

environ_TZ(tz) == "UTC0"

\* A variant that takes the first listed revision.
InitialYearFirstLine(stdout, current_year) ==
    IF Len(stdout) = 0 THEN current_year
    ELSE splitlines(stdout)[1]

\* A variant without the default for an empty history.
InitialYearEpoch(stdout, current_year) ==
    IF Len(stdout) = 0 THEN FormatYear(1970)
    ELSE LET lines == splitlines(stdout) IN lines[Len(lines)]

\* Lines 243-247: the initial year, from the output of `git log`.
InitialYear(stdout, current_year) ==
    IF Len(stdout) = 0 THEN current_year
    ELSE LET lines == splitlines(stdout) IN lines[Len(lines)]

\* A variant that compares with >=.
YearsStringGe(initial_year, current_year) ==
    IF int(current_year) >= int(initial_year)
    THEN initial_year \o <<"-">> \o current_year
    ELSE initial_year

\* A variant that compares with !=.
YearsStringNe(initial_year, current_year) ==
    IF int(current_year) # int(initial_year)
    THEN initial_year \o <<"-">> \o current_year
    ELSE initial_year

\* Lines 249-251: the year string.
YearsString(initial_year, current_year) ==
    IF int(current_year) > int(initial_year)
    THEN initial_year \o <<"-">> \o current_year
    ELSE initial_year

\* A file of the working tree: text, bytes that are not UTF-8 text, or a
\* path git knows that cannot be opened as a regular file.
TextFile(content) == [kind |-> "text", content |-> content]

BinaryFile == [kind |-> "binary", content |-> <<>>]

MissingFile == [kind |-> "missing", content |-> <<>>]

\* A variant that takes every path for the same file of the tree.
FileKey_fixed(file_path) == p_srcfoo_b

\* The key of a path in the working tree.
FileKey(file_path) == relpath(file_path)[1]

\* Lines 256-257: the text that file.read() returns for a file opened with
\* mode='rt' and the default newline=None: "\r\n" and a lone "\r" of the file
\* are read as "\n".
RECURSIVE read_rt(_)
read_rt(content) ==
    IF Len(content) = 0 THEN <<>>
    ELSE IF content[1] # "\r" THEN <<content[1]>> \o read_rt(Tail(content))
    ELSE IF Len(content) >= 2 /\ content[2] = "\n"
    THEN <<"\n">> \o read_rt(SubSeq(content, 3, Len(content)))
    ELSE <<"\n">> \o read_rt(Tail(content))

\* Lines 268-269: what file.write(string) puts in a file opened with
\* mode='wt': "\n" is written as os.linesep, which is "\n" on POSIX.
write_wt(string) == string

\* What one call of update_copyright_years does, given the completed
\* `git log` process and the working tree: the exception it raises (raised,
\* "" for none) or the value it returns (ret), the tree afterwards, whether
\* the file was read and whether it was opened for writing.
CallResult(raised, message, ret, initial_year, years, did_read, wrote, tree) ==
    [raised |-> raised, message |-> message, ret |-> ret,
     initial_year |-> initial_year, years |-> years,
     did_read |-> did_read, wrote |-> wrote, fs |-> tree]

\* A variant that lets the decoding error of a non-text file escape.
update_copyright_years_uncaught(file_path, current_year, matching_opts, proc, tree) ==
    IF proc.returncode # 0
    THEN CallResult("Exception", proc.stderr, FALSE, <<>>, <<>>, FALSE, FALSE, tree)
    ELSE
    LET initial_year == InitialYear(proc.stdout, current_year)
        years == YearsString(initial_year, current_year)
        file == tree[FileKey(file_path)]
        result == replace_copyright_years(read_rt(file.content), years, matching_opts)
    IN  IF file.kind = "missing"
        THEN CallResult("OSError", "", FALSE, initial_year, years, FALSE, FALSE, tree)
        ELSE IF file.kind = "binary"
        THEN CallResult("UnicodeDecodeError", "", FALSE, initial_year, years, TRUE,
                        FALSE, tree)
        ELSE IF result.status # "ok"
        THEN CallResult("re.error", "", FALSE, initial_year, years, TRUE, FALSE, tree)
        ELSE IF result.replaced_years = None
        THEN CallResult("", "", FALSE, initial_year, years, TRUE, FALSE, tree)
        ELSE CallResult("", "", TRUE, initial_year, years, TRUE, TRUE,
                        [tree EXCEPT ![FileKey(file_path)] = TextFile(write_wt(result.string))])

\* A variant that reads the file first and asks git for its history after.
update_copyright_years_read_first(file_path, current_year, matching_opts, proc, tree) ==
    LET initial_year == InitialYear(proc.stdout, current_year)
        years == YearsString(initial_year, current_year)
        file == tree[FileKey(file_path)]
        result == replace_copyright_years(read_rt(file.content), years, matching_opts)
    IN  IF file.kind = "missing"
        THEN CallResult("OSError", "", FALSE, <<>>, <<>>, FALSE, FALSE, tree)
        ELSE IF file.kind = "binary"
        THEN CallResult("", "", FALSE, <<>>, <<>>, TRUE, FALSE, tree)
        ELSE IF proc.returncode # 0
        THEN CallResult("Exception", proc.stderr, FALSE, <<>>, <<>>, TRUE, FALSE, tree)
        ELSE IF result.status # "ok"
        THEN CallResult("re.error", "", FALSE, initial_year, years, TRUE, FALSE, tree)
        ELSE IF result.replaced_years = None
        THEN CallResult("", "", FALSE, initial_year, years, TRUE, FALSE, tree)
        ELSE CallResult("", "", TRUE, initial_year, years, TRUE, TRUE,
                        [tree EXCEPT ![FileKey(file_path)] = TextFile(write_wt(result.string))])

\* A variant that does not look at the return code of `git log`.
update_copyright_years_unchecked(file_path, current_year, matching_opts, proc, tree) ==
    LET initial_year == InitialYear(proc.stdout, current_year)
        years == YearsString(initial_year, current_year)
        file == tree[FileKey(file_path)]
        result == replace_copyright_years(read_rt(file.content), years, matching_opts)
    IN  IF file.kind = "missing"
        THEN CallResult("OSError", "", FALSE, initial_year, years, FALSE, FALSE, tree)
        ELSE IF file.kind = "binary"
        THEN CallResult("", "", FALSE, initial_year, years, TRUE, FALSE, tree)
        ELSE IF result.status # "ok"
        THEN CallResult("re.error", "", FALSE, initial_year, years, TRUE, FALSE, tree)
        ELSE IF result.replaced_years = None
        THEN CallResult("", "", FALSE, initial_year, years, TRUE, FALSE, tree)
        ELSE CallResult("", "", TRUE, initial_year, years, TRUE, TRUE,
                        [tree EXCEPT ![FileKey(file_path)] = TextFile(write_wt(result.string))])

update_copyright_years(file_path, current_year, matching_opts, proc, tree) ==
    IF proc.returncode # 0
    THEN CallResult("Exception", proc.stderr, FALSE, <<>>, <<>>, FALSE, FALSE, tree)
    ELSE
    LET initial_year == InitialYear(proc.stdout, current_year)
        years == YearsString(initial_year, current_year)
        file == tree[FileKey(file_path)]
        result == replace_copyright_years(read_rt(file.content), years, matching_opts)
    IN  IF file.kind = "missing"
        THEN CallResult("OSError", "", FALSE, initial_year, years, FALSE, FALSE, tree)
        ELSE IF file.kind = "binary"
        THEN CallResult("", "", FALSE, initial_year, years, TRUE, FALSE, tree)
        ELSE IF result.status # "ok"
        THEN CallResult("re.error", "", FALSE, initial_year, years, TRUE, FALSE, tree)
        ELSE IF result.replaced_years = None
        THEN CallResult("", "", FALSE, initial_year, years, TRUE, FALSE, tree)
        ELSE CallResult("", "", TRUE, initial_year, years, TRUE, TRUE,
                        [tree EXCEPT ![FileKey(file_path)] = TextFile(write_wt(result.string))])

\* The working tree as os.path sees it: the known files that exist.
ExistingFiles(tree) ==
    SelectSeq(TreeFiles, LAMBDA f : tree[f].kind # "missing")

(***************************************************************************)
(* State                                                                   *)
(***************************************************************************)
VARIABLES
    pc,              \* where main is: "start", "loop", "done", "aborted";
                     \* "idle" when only replace_copyright_years is exercised
    options,         \* the parsed command line
    matching_opts,   \* the MatchPattern built from the options
    selection,       \* what get_file_paths returned or raised, None before
    current_year,    \* the string get_current_year returned
    idx,             \* number of entries of the file list already processed
    counter,         \* main's counter
    fs,              \* the working tree: known path -> file
    TZ,              \* os.environ['TZ']
    last,            \* the last call of update_copyright_years, None before
    error,           \* the exception that ended main, None if none
    n_changed,       \* number of calls that left the file's content changed
    ls_files,        \* the completed `git ls-files` process, None if never run
    string,          \* argument of replace_copyright_years (exercised alone)
    years,           \* argument of replace_copyright_years (exercised alone)
    replaced,        \* its result, None before the call
    replaced_again,  \* its result on its own output, None before the call
    pandoc_pc,       \* where pandoc2latex is: "call", "written", "ran",
                     \* "returned", "raised"; "idle" when it is not exercised
    markdown,        \* pandoc2latex's argument string
    extra_args,      \* pandoc2latex's argument extra_args
    tmp_dir,         \* the directory of temporary files: name -> content
    tmp,             \* the name of the temporary file, None before it exists
    source_path,     \* pandoc2latex's argument file_path, resolved, as
                     \* components below the root directory
    pandoc_proc,     \* how the pandoc process ended, None before
    helper_pc,       \* where cmake_helper's main is: "call", "returned",
                     \* "raised"; "idle" when it is not exercised
    function,        \* the function cmake_helper's main dispatches to
    input_tree,      \* the files under input_dir, as paths relative to it
    output_tree,     \* the files copied under output_dir, relative to it
    output_file,     \* the lines written to output_file, None before
    args,            \* the command line of create_hepmc3_file
    run              \* two runs of create_hepmc3_file on that command line

vars == <<pc, options, matching_opts, selection, current_year, idx, counter, fs,
          TZ, last, error, n_changed, ls_files, string, years, replaced,
          replaced_again, pandoc_pc, markdown, extra_args, tmp_dir, tmp,
          source_path, pandoc_proc, helper_pc, function, input_tree, output_tree,
          output_file, args, run>>

mainVars == <<pc, selection, current_year, idx, counter, fs, TZ, last, error,
              n_changed, ls_files>>

replaceVars == <<string, years, replaced, replaced_again>>

pandocVars == <<pandoc_pc, markdown, extra_args, tmp_dir, tmp, source_path,
                pandoc_proc>>

helperVars == <<helper_pc, function, input_tree, output_tree, output_file>>

hepmcVars == <<args, run>>

\* The other scripts are not running.
PandocIdle ==
    /\ pandoc_pc = "idle"
    /\ markdown = <<>>
    /\ extra_args = None
    /\ tmp_dir = <<>>
    /\ tmp = None
    /\ source_path = <<>>
    /\ pandoc_proc = None

HelperIdle ==
    /\ helper_pc = "idle"
    /\ function = ""
    /\ input_tree = {}
    /\ output_tree = {}
    /\ output_file = None

HepmcIdle ==
    /\ args = None
    /\ run = <<>>

(***************************************************************************)
(* Bounded inputs                                                          *)
(***************************************************************************)
\* Longest `git log` output, in lines.
MaxLog == 2

\* Longest exclude list and longest include list.
MaxPaths == 2

\* Longest text handed to replace_copyright_years alone, in fragments.
MaxPieces == 3

SeqsUpTo(S, n) == UNION {[1..k -> S] : k \in 0..n}

\* The clock when main reads it: 2025 in UTC, on a host whose local time is
\* in the same year or already in the next one.
Clocks == {Clock(2025, 2025), Clock(2025, 2026)}

HistoryYears == {2024, 2025, 2026}

\* The completed `git log` processes: a listing of years, one per revision,
\* in any order (the dates are author dates), or a failure.
GitLogOutcomes ==
    {[returncode |-> 0,
      stdout |-> Lines([i \in 1..Len(h) |-> FormatYear(h[i])]),
      stderr |-> ""] : h \in SeqsUpTo(HistoryYears, MaxLog)}
    \cup {[returncode |-> 128, stdout |-> <<>>, stderr |-> "fatal: git log"]}

\* The completed `git ls-files` processes: every path is tracked, or
\* srcfoo/b.py is not, or the command fails.
LsFilesOutcomes ==
    {[returncode |-> 0, stdout |-> Lines(TreeFiles), stderr |-> ""],
     [returncode |-> 0, stdout |-> Lines(<<p_readme, p_src_a>>), stderr |-> ""],
     [returncode |-> 128, stdout |-> <<>>, stderr |-> "fatal: git ls-files"]}

Y(n) == FormatYear(n)

\* File contents: a line with an old year, a line that already carries the
\* range followed by a second copyright line, and a text with no year.
TextOld == <<"C", " ">> \o Y(2024) \o <<" ", "E">>

TextTwo == <<"C", " ">> \o Y(2024) \o <<"-">> \o Y(2025) \o <<" ", "E", "\n">> \o TextOld

TextNoYear == <<"E", "\n">>

FileStates ==
    {TextFile(TextOld), TextFile(TextTwo), TextFile(TextNoYear), BinaryFile, MissingFile}

\* The working trees main starts in.
MainTrees == {tree \in [TreeSet -> FileStates] : tree[p_srcfoo_b] = TextFile(TextOld)}

Options(y, a, p, x, f) ==
    [years |-> y, appendix |-> a, prependix |-> p, exclude |-> x, files |-> f]

MainOptions ==
    {Options(DEFAULT_YEARS_PATTERN, None, Some(<<"C">>), x, f) :
        x \in {<<>>, <<p_srcfoo>>}, f \in {None, Some(<<p_readme, p_doc>>)}}

(***************************************************************************)
(* main                                                                    *)
(***************************************************************************)
Init ==
    /\ pc = "start"
    /\ options \in MainOptions
    /\ fs \in MainTrees
    /\ matching_opts = None
    /\ selection = None
    /\ current_year = <<>>
    /\ idx = 0
    /\ counter = 0
    /\ TZ = "host"
    /\ last = None
    /\ error = None
    /\ n_changed = 0
    /\ ls_files = None
    /\ string = <<>>
    /\ years = <<>>
    /\ replaced = None
    /\ replaced_again = None
    /\ PandocIdle
    /\ HelperIdle
    /\ HepmcIdle

\* main, lines 283-297: the pattern, the file list, the current year.
Start ==
    /\ pc = "start"
    /\ \E proc \in LsFilesOutcomes, clock \in Clocks :
          \E sel \in {get_file_paths(options.files, options.exclude, proc,
                                     ExistingFiles(fs))} :
              /\ matching_opts' =
                    MatchPattern(options.years, options.appendix, options.prependix)
              /\ selection' = Some(sel)
              /\ ls_files' = IF sel.ran_git THEN Some(proc) ELSE None
              /\ IF sel.status = "ok"
                 THEN /\ pc' = "loop"
                      /\ current_year' = get_current_year(clock)
                      /\ error' = error
                 ELSE /\ pc' = "aborted"
                      /\ current_year' = current_year
                      /\ error' = Some([type |-> sel.status, message |-> sel.message])
    /\ UNCHANGED <<options, idx, counter, fs, TZ, last, n_changed>>
    /\ UNCHANGED replaceVars
    /\ UNCHANGED <<pandocVars, helperVars, hepmcVars>>

\* One iteration of main's loop (lines 300-302): update_copyright_years on
\* the next entry of the file list.  The call sets TZ in the environment
\* (line 236) before it runs `git log`, so last.TZ is what the query sees.
LoopStep ==
    /\ pc = "loop"
    /\ idx < Len(selection[1].file_paths)
    /\ \E proc \in GitLogOutcomes :
          \E file_path \in {selection[1].file_paths[idx + 1]} :
          \E r \in {update_copyright_years(file_path, current_year, matching_opts,
                                            proc, fs)} :
              /\ TZ' = environ_TZ(TZ)
              /\ fs' = r.fs
              /\ last' = Some([file_path |-> file_path, proc |-> proc,
                               raised |-> r.raised, ret |-> r.ret,
                               initial_year |-> r.initial_year, years |-> r.years,
                               did_read |-> r.did_read, wrote |-> r.wrote,
                               TZ |-> environ_TZ(TZ),
                               before |-> fs[FileKey(file_path)],
                               after |-> r.fs[FileKey(file_path)]])
              /\ n_changed' = n_changed +
                    (IF r.fs[FileKey(file_path)] # fs[FileKey(file_path)] THEN 1 ELSE 0)
              /\ IF r.raised = ""
                 THEN /\ idx' = idx + 1
                      /\ counter' = counter + (IF r.ret THEN 1 ELSE 0)
                      /\ pc' = pc
                      /\ error' = error
                 ELSE /\ pc' = "aborted"
                      /\ error' = Some([type |-> r.raised, message |-> r.message])
                      /\ UNCHANGED <<idx, counter>>
    /\ UNCHANGED <<options, matching_opts, selection, current_year, ls_files>>
    /\ UNCHANGED replaceVars
    /\ UNCHANGED <<pandocVars, helperVars, hepmcVars>>

\* A variant of the loop's end that may leave the list unfinished.
FinishEarly ==
    /\ pc = "loop"
    /\ idx <= Len(selection[1].file_paths)
    /\ pc' = "done"
    /\ UNCHANGED <<options, matching_opts, selection, current_year, idx, counter,
                   fs, TZ, last, error, n_changed, ls_files>>
    /\ UNCHANGED replaceVars
    /\ UNCHANGED <<pandocVars, helperVars, hepmcVars>>

\* main, line 304: the summary.
Finish ==
    /\ pc = "loop"
    /\ idx = Len(selection[1].file_paths)
    /\ pc' = "done"
    /\ UNCHANGED <<options, matching_opts, selection, current_year, idx, counter,
                   fs, TZ, last, error, n_changed, ls_files>>
    /\ UNCHANGED replaceVars
    /\ UNCHANGED <<pandocVars, helperVars, hepmcVars>>

Next == Start \/ LoopStep \/ Finish

Spec == Init /\ [][Next]_vars

\* main has a step to take: it has neither exited nor been aborted.  This
\* is the enabling condition of Next: Start can be taken at "start", and in
\* the loop either LoopStep or Finish can.
Running == pc \in {"start", "loop"}

\* What every step of Next changes: where main is, or its position in the
\* file list.
Advances == pc' # pc \/ idx' # idx

\* main is one sequential thread that runs until it exits or an exception
\* ends it, so a step that can be taken is taken: weak fairness of Next,
\* written with Running for the enabling condition of Next and Advances for
\* its steps.
Fairness == []<>(~Running) \/ []<><<Advances>>_vars

SpecLive == Spec /\ Fairness

(***************************************************************************)
(* main on one file, README: literals with a backslash and files with      *)
(* "\r\n" line endings                                                      *)
(***************************************************************************)
\* -p C, -p '\1', -p '\n' (a backslash and a letter or digit)
Prependices == {<<"C">>, <<"\\", "1">>, <<"\\", "n">>}

RewriteOptions ==
    {Options(DEFAULT_YEARS_PATTERN, None, Some(p), <<>>, Some(<<p_readme>>)) :
        p \in Prependices}

\* README: a line with one of the literals before an old year, or a text
\* with "\r\n" line endings.
RewriteTexts ==
    {p \o <<" ">> \o Y(2024) \o <<" ", "E", "\n">> : p \in Prependices}
    \cup {<<"E", "\r", "\n", "C", " ">> \o Y(2024) \o <<"\r", "\n">>}

InitRewrite ==
    /\ pc = "start"
    /\ options \in RewriteOptions
    /\ \E t \in RewriteTexts :
          fs = [f \in TreeSet |-> IF f = p_readme THEN TextFile(t)
                                  ELSE TextFile(TextOld)]
    /\ matching_opts = None
    /\ selection = None
    /\ current_year = <<>>
    /\ idx = 0
    /\ counter = 0
    /\ TZ = "host"
    /\ last = None
    /\ error = None
    /\ n_changed = 0
    /\ ls_files = None
    /\ string = <<>>
    /\ years = <<>>
    /\ replaced = None
    /\ replaced_again = None
    /\ PandocIdle
    /\ HelperIdle
    /\ HepmcIdle

SpecRewrite == InitRewrite /\ [][Next]_vars

(***************************************************************************)
(* get_file_paths on its own: every include and exclude list of the         *)
(* bounded pools, on the full working tree                                 *)
(***************************************************************************)
IncludePool == {p_src, p_readme, p_dot, p_doc}

ExcludePool == {p_src, p_srcfoo, p_dot_src, p_doc}

PathOptions ==
    {Options(DEFAULT_YEARS_PATTERN, None, None, x, f) :
        x \in SeqsUpTo(ExcludePool, MaxPaths),
        f \in {None} \cup {Some(l) : l \in SeqsUpTo(IncludePool, MaxPaths)}}

InitPaths ==
    /\ pc = "start"
    /\ options \in PathOptions
    /\ fs = [f \in TreeSet |-> TextFile(TextOld)]
    /\ matching_opts = None
    /\ selection = None
    /\ current_year = <<>>
    /\ idx = 0
    /\ counter = 0
    /\ TZ = "host"
    /\ last = None
    /\ error = None
    /\ n_changed = 0
    /\ ls_files = None
    /\ string = <<>>
    /\ years = <<>>
    /\ replaced = None
    /\ replaced_again = None
    /\ PandocIdle
    /\ HelperIdle
    /\ HepmcIdle

SpecPaths == InitPaths /\ [][Start]_vars

(***************************************************************************)
(* replace_copyright_years on its own: every text of the bounded set, and  *)
(* the function applied again to its own output                            *)
(***************************************************************************)
Fragments ==
    {Y(2024), <<"-">> \o Y(2024), <<"C", " ">>, <<" ", "A">>, <<"\n">>,
     <<"\\", "c", " ">>}

Texts == {Concat(ps) : ps \in SeqsUpTo(Fragments, MaxPieces)}

Targets == {Y(2025), Y(2024) \o <<"-">> \o Y(2025)}

\* -y '\d{4}'
FOUR_DIGITS_PATTERN == <<Atom(Digits, 4)>>

ReplaceOptions ==
    {Options(y, ap[1], ap[2], <<>>, None) :
        y \in {DEFAULT_YEARS_PATTERN, FOUR_DIGITS_PATTERN},
        ap \in {<<None, None>>, <<None, Some(<<"C">>)>>, <<Some(<<"A">>), None>>,
                <<None, Some(<<"\\", "c">>)>>, <<None, Some(<<".">>)>>}}

InitReplace ==
    /\ pc = "idle"
    /\ options \in ReplaceOptions
    /\ matching_opts = MatchPattern(options.years, options.appendix, options.prependix)
    /\ string \in Texts
    /\ years \in Targets
    /\ replaced = None
    /\ replaced_again = None
    /\ fs = [f \in TreeSet |-> TextFile(TextOld)]
    /\ selection = None
    /\ current_year = <<>>
    /\ idx = 0
    /\ counter = 0
    /\ TZ = "host"
    /\ last = None
    /\ error = None
    /\ n_changed = 0
    /\ ls_files = None
    /\ PandocIdle
    /\ HelperIdle
    /\ HepmcIdle

\* replace_copyright_years(string, years, matching_opts)
Replace ==
    /\ pc = "idle"
    /\ replaced = None
    /\ replaced' = Some(replace_copyright_years(string, years, matching_opts))
    /\ UNCHANGED <<string, years, replaced_again, options, matching_opts>>
    /\ UNCHANGED mainVars
    /\ UNCHANGED <<pandocVars, helperVars, hepmcVars>>

\* The same call on the text the first call returned.
ReplaceAgain ==
    /\ pc = "idle"
    /\ replaced # None
    /\ replaced[1].status = "ok"
    /\ replaced_again = None
    /\ replaced_again' =
          Some(replace_copyright_years(replaced[1].string, years, matching_opts))
    /\ UNCHANGED <<string, years, replaced, options, matching_opts>>
    /\ UNCHANGED mainVars
    /\ UNCHANGED <<pandocVars, helperVars, hepmcVars>>

NextReplace == Replace \/ ReplaceAgain

SpecReplace == InitReplace /\ [][NextReplace]_vars

(***************************************************************************)
(* convert_markdown.py: pandoc2latex                                       *)
(***************************************************************************)
\* The names tempfile can give a file in the directory of temporary files.
TmpNames == {"tmpa", "tmpb", "tmpc"}

\* The directory before the call: some names are taken by files that other
\* processes left there, at least one is free.
TmpDirs ==
    {d \in [TmpNames -> {None, Some(<<"o">>)}] : \E n \in TmpNames : d[n] = None}

Markdowns == {<<>>, <<"#", " ", "T">>, <<"x">>}

ExtraArgs == {None, Some(<<"--top-level-division=chapter">>)}

\* docs/a/_index.md, and a file directly in the root directory.
SourcePaths == {<< <<"d", "o", "c", "s">>, <<"a">>, <<"i", ".", "m", "d">> >>,
                << <<"x", ".", "m", "d">> >>}

\* Lines 275-285: the command line of pandoc.
PandocArgs(extra, name) ==
    <<"pandoc", "-f",
      "markdown+escaped_line_breaks+shortcut_reference_links+autolink_bare_uris+multiline_tables+raw_html-raw_tex",
      "-t", "latex", "--listings", "--biblatex",
      "--lua-filter", "pandoc-gitlab-math.lua",
      "--lua-filter", "pandoc-minted.lua">>
    \o (IF extra = None THEN <<>> ELSE extra[1]) \o <<name>>

\* How subprocess.run(pandoc_args, check=True) can end: pandoc exits with 0
\* and some LaTeX on stdout, pandoc exits non-zero (CalledProcessError), or
\* there is no pandoc to run (FileNotFoundError).
PandocOutcomes ==
    {[returncode |-> 0, stdout |-> out, raised |-> ""] :
        out \in {<<>>, <<"\\", "T">>}}
    \cup {[returncode |-> 64, stdout |-> <<>>, raised |-> "CalledProcessError"],
          [returncode |-> 127, stdout |-> <<>>, raised |-> "FileNotFoundError"]}

\* Lines 175-191, _get_path_relative_to_markdown_tree: parents[1] of the
\* resolved path exists only if the file is not directly in the root
\* directory (IndexError otherwise).
HasSecondParent(path) == Len(path) >= 2

InitPandoc ==
    /\ pandoc_pc = "call"
    /\ markdown \in Markdowns
    /\ extra_args \in ExtraArgs
    /\ source_path \in SourcePaths
    /\ tmp_dir \in TmpDirs
    /\ tmp = None
    /\ pandoc_proc = None
    /\ pc = "idle"
    /\ options = Options(DEFAULT_YEARS_PATTERN, None, None, <<>>, None)
    /\ matching_opts = None
    /\ selection = None
    /\ current_year = <<>>
    /\ idx = 0
    /\ counter = 0
    /\ fs = [f \in TreeSet |-> TextFile(TextOld)]
    /\ TZ = "host"
    /\ last = None
    /\ error = None
    /\ n_changed = 0
    /\ ls_files = None
    /\ string = <<>>
    /\ years = <<>>
    /\ replaced = None
    /\ replaced_again = None
    /\ HelperIdle
    /\ HepmcIdle

\* Lines 271-273: NamedTemporaryFile(delete=False) creates a file under a
\* name that is free, the string is written to it and the file is closed.
TmpWrite ==
    /\ pandoc_pc = "call"
    /\ \E name \in TmpNames :
          /\ tmp_dir[name] = None
          /\ tmp' = Some(name)
          /\ tmp_dir' = [tmp_dir EXCEPT ![name] = Some(markdown)]
    /\ pandoc_pc' = "written"
    /\ UNCHANGED <<markdown, extra_args, source_path, pandoc_proc>>
    /\ UNCHANGED <<options, matching_opts>>
    /\ UNCHANGED <<mainVars, replaceVars, helperVars, hepmcVars>>

\* Lines 275-288: pandoc runs on the temporary file; with check=True a
\* non-zero exit raises CalledProcessError out of pandoc2latex.
RunPandoc ==
    /\ pandoc_pc = "written"
    /\ \E outcome \in PandocOutcomes :
          /\ pandoc_proc' = Some(outcome @@
                                  [args |-> PandocArgs(extra_args, tmp[1])])
          /\ pandoc_pc' = IF outcome.raised = "" THEN "ran" ELSE "raised"
    /\ UNCHANGED <<markdown, extra_args, source_path, tmp_dir, tmp>>
    /\ UNCHANGED <<options, matching_opts>>
    /\ UNCHANGED <<mainVars, replaceVars, helperVars, hepmcVars>>

\* Lines 290-297: the temporary file is removed, then the LaTeX is fixed up
\* (four textual substitutions that touch no file; the last one needs the
\* second parent of file_path) and returned.
UnlinkAndFix ==
    /\ pandoc_pc = "ran"
    /\ tmp_dir' = [tmp_dir EXCEPT ![tmp[1]] = None]
    /\ IF HasSecondParent(source_path)
       THEN /\ pandoc_pc' = "returned"
            /\ pandoc_proc' = pandoc_proc
       ELSE /\ pandoc_pc' = "raised"
            /\ pandoc_proc' = Some([pandoc_proc[1] EXCEPT !.raised = "IndexError"])
    /\ UNCHANGED <<markdown, extra_args, source_path, tmp>>
    /\ UNCHANGED <<options, matching_opts>>
    /\ UNCHANGED <<mainVars, replaceVars, helperVars, hepmcVars>>

NextPandoc == TmpWrite \/ RunPandoc \/ UnlinkAndFix

SpecPandoc == InitPandoc /\ [][NextPandoc]_vars

(***************************************************************************)
(* cmake_helper.py: glob_dir and create_latex_input                        *)
(***************************************************************************)
\* Most files of a tree under input_dir.
MaxFiles == 2

\* The argument input_path.
input_dir == <<"t">>

\* str.endswith
endswith(s, suffix) ==
    /\ Len(s) >= Len(suffix)
    /\ SubSeq(s, Len(s) - Len(suffix) + 1, Len(s)) = suffix

\* os.path.join(input_dir, <components of a path relative to it>)
PathUnder(dir, path) == Join(<<dir>> \o path)

\* The name of a file and the directory it is in, for a path given by its
\* components.
basename(path) == path[Len(path)]

dirname(path) == SubSeq(path, 1, Len(path) - 1)

\* The directories of a tree: the proper prefixes of its file paths.
Dirs(tree) ==
    UNION {{SubSeq(p, 1, k) : k \in 0..(Len(p) - 1)} : p \in tree} \cup {<<>>}

\* The shell pattern of the last path component, '*.*[!.in]', in tokens.
GLOB_NAME_PATTERN ==
    <<[kind |-> "star", cs |-> {}], [kind |-> "lit", cs |-> {"."}],
      [kind |-> "star", cs |-> {}], [kind |-> "not", cs |-> {".", "i", "n"}]>>

\* fnmatch.fnmatchcase(name, pat): '*' is any run of characters, [!...] is
\* one character outside the set.
RECURSIVE fnmatchcase(_, _)
fnmatchcase(name, pat) ==
    IF Len(pat) = 0 THEN Len(name) = 0
    ELSE IF pat[1].kind = "star"
    THEN \E k \in 0..Len(name) :
            fnmatchcase(SubSeq(name, k + 1, Len(name)), Tail(pat))
    ELSE /\ Len(name) > 0
         /\ IF pat[1].kind = "lit" THEN name[1] \in pat[1].cs
            ELSE name[1] \notin pat[1].cs
         /\ fnmatchcase(Tail(name), Tail(pat))

\* glob._ishidden
ishidden(name) == Len(name) > 0 /\ name[1] = "."

\* The directories that '**' stands for with recursive=True: input_dir and
\* every directory below it that is reached without entering a hidden one.
RecursiveDirs(tree) ==
    {d \in Dirs(tree) : \A k \in 1..Len(d) : ~ishidden(d[k])}

\* glob.glob(os.path.join(input_dir, '**', '*.*[!.in]'), recursive=True),
\* as paths relative to input_dir: the entries, files and directories, of
\* those directories whose name is not hidden and matches the pattern.
glob(tree) ==
    {p \in (tree \cup Dirs(tree)) \ {<<>>} :
        /\ dirname(p) \in RecursiveDirs(tree)
        /\ ~ishidden(basename(p))
        /\ fnmatchcase(basename(p), GLOB_NAME_PATTERN)}

\* ASCII codes of the characters of the path pools.
ord(c) ==
    LET LowerCase == <<"a", "b", "c", "d", "e", "f", "g", "h", "i", "j", "k", "l",
                       "m", "n", "o", "p", "q", "r", "s", "t", "u", "v", "w", "x",
                       "y", "z">>
    IN  IF c = "." THEN 46
        ELSE IF c = "/" THEN 47
        ELSE IF c \in Digits THEN 48 + DigitVal(c)
        ELSE IF c = "_" THEN 95
        ELSE 96 + (CHOOSE i \in 1..26 : LowerCase[i] = c)

\* a < b for Python strings: by the first character that differs, a proper
\* prefix first.
RECURSIVE str_lt(_, _)
str_lt(a, b) ==
    IF Len(b) = 0 THEN FALSE
    ELSE IF Len(a) = 0 THEN TRUE
    ELSE IF a[1] # b[1] THEN ord(a[1]) < ord(b[1])
    ELSE str_lt(Tail(a), Tail(b))

INDEX_TEX == <<"_", "i", "n", "d", "e", "x", ".", "t", "e", "x">>

\* Line 175, the sort key: a path that ends in '_index.tex' sorts as the
\* path with these ten characters replaced by '00'.
sort_key(x) ==
    IF endswith(x, INDEX_TEX) THEN SubSeq(x, 1, Len(x) - 10) \o <<"0", "0">>
    ELSE x

\* sorted(list, key=sort_key): a stable sort, here by insertion.
RECURSIVE insert_sorted(_, _)
insert_sorted(list, x) ==
    IF Len(list) = 0 THEN <<x>>
    ELSE IF str_lt(sort_key(x), sort_key(list[1])) THEN <<x>> \o list
    ELSE <<list[1]>> \o insert_sorted(Tail(list), x)

RECURSIVE sorted(_)
sorted(list) ==
    IF Len(list) = 0 THEN <<>>
    ELSE insert_sorted(sorted(SubSeq(list, 1, Len(list) - 1)), list[Len(list)])

\* The orders in which a directory walk can list a set of files.
Orders(S) ==
    {o \in [1..Cardinality(S) -> S] : \A x \in S : \E i \in DOMAIN o : o[i] = x}

\* Line 179: the line written for one file.
InputLine(latex_file) ==
    <<"\\", "i", "n", "p", "u", "t", "{">> \o latex_file \o <<"}", "\n">>

\* The files of the trees glob_dir is run on: a.md, a.in, c.json, mk and the
\* hidden .h.md, in input_dir, in d, in d.x and in the hidden directory .g.
GlobPaths ==
    {d \o <<n>> :
        d \in {<<>>, << <<"d">> >>, << <<"d", ".", "x">> >>, << <<".", "g">> >>},
        n \in {<<"a", ".", "m", "d">>, <<"a", ".", "i", "n">>,
               <<"c", ".", "j", "s", "o", "n">>, <<"m", "k">>,
               <<".", "h", ".", "m", "d">>}}

\* The files of the trees create_latex_input is run on: _index.tex, 0.tex,
\* a.tex and a.md, in input_dir and in d.
LatexPaths ==
    {d \o <<n>> :
        d \in {<<>>, << <<"d">> >>},
        n \in {INDEX_TEX, <<"0", ".", "t", "e", "x">>, <<"a", ".", "t", "e", "x">>,
               <<"a", ".", "m", "d">>}}

TreesOf(paths) == {t \in SUBSET paths : Cardinality(t) <= MaxFiles}

InitHelper ==
    /\ helper_pc = "call"
    /\ \/ function = "glob_dir" /\ input_tree \in TreesOf(GlobPaths)
       \/ function = "create_latex_input" /\ input_tree \in TreesOf(LatexPaths)
    /\ output_tree = {}
    /\ output_file = None
    /\ pc = "idle"
    /\ options = Options(DEFAULT_YEARS_PATTERN, None, None, <<>>, None)
    /\ matching_opts = None
    /\ selection = None
    /\ current_year = <<>>
    /\ idx = 0
    /\ counter = 0
    /\ fs = [f \in TreeSet |-> TextFile(TextOld)]
    /\ TZ = "host"
    /\ last = None
    /\ error = None
    /\ n_changed = 0
    /\ ls_files = None
    /\ string = <<>>
    /\ years = <<>>
    /\ replaced = None
    /\ replaced_again = None
    /\ PandocIdle
    /\ HepmcIdle

\* glob_dir(input_dir, output_dir), lines 108-113: every path of the glob is
\* copied to the same relative path under output_dir.  glob lists the
\* entries of input_dir itself first, in no particular order, and
\* shutil.copyfile raises IsADirectoryError on a directory: the files of
\* input_dir listed before it have been copied then.
GlobDir ==
    /\ helper_pc = "call"
    /\ function = "glob_dir"
    /\ \E input_files \in {glob(input_tree)} :
          IF input_files \subseteq input_tree
          THEN /\ output_tree' = input_files
               /\ helper_pc' = "returned"
          ELSE /\ \E copied \in SUBSET {p \in input_files \cap input_tree :
                                          Len(p) = 1} :
                     output_tree' = copied
               /\ helper_pc' = "raised"
    /\ UNCHANGED <<function, input_tree, output_file>>
    /\ UNCHANGED <<options, matching_opts>>
    /\ UNCHANGED <<mainVars, replaceVars, pandocVars, hepmcVars>>

\* create_latex_input(input_dir, output_file), lines 169-179: the paths of
\* the walk that end in '.tex', sorted, one \input line each.
CreateLatexInput ==
    /\ helper_pc = "call"
    /\ function = "create_latex_input"
    /\ \E walked \in Orders({PathUnder(input_dir, p) : p \in input_tree}) :
          \E latex_files \in
                {sorted(SelectSeq(walked, LAMBDA file_path :
                                            endswith(file_path, <<".", "t", "e", "x">>)))} :
              output_file' = Some([i \in 1..Len(latex_files) |->
                                      InputLine(latex_files[i])])
    /\ helper_pc' = "returned"
    /\ UNCHANGED <<function, input_tree, output_tree>>
    /\ UNCHANGED <<options, matching_opts>>
    /\ UNCHANGED <<mainVars, replaceVars, pandocVars, hepmcVars>>

\* cmake_helper's main, line 201: the dispatch on the function argument.
NextHelper == GlobDir \/ CreateLatexInput

SpecHelper == InitHelper /\ [][NextHelper]_vars

(***************************************************************************)
(* create_hepmc3_file.py: two runs on the same command line                *)
(***************************************************************************)
\* Most events of a run.
MaxEvents == 2

\* The random generator, with a small state: seeding with an integer sets
\* the state from that integer alone; without one (seed(None), and the
\* seeding done when the random module is imported) the state comes from
\* the entropy of the operating system.
Modulus == 8

Entropy == 0..2

random_seed(a, entropy) == IF a = None THEN entropy ELSE a[1] % Modulus

\* random.random(): the next state of the generator, which is also the
\* number drawn, in units of 1/Modulus.
random_random(state) == (5 * state + 3) % Modulus

\* The states of the generator after 0..n draws.
RECURSIVE Draws(_, _)
Draws(state, n) ==
    IF n = 0 THEN <<state>>
    ELSE <<state>> \o Draws(random_random(state), n - 1)

\* generate_HEPEVT(event_id), lines 15-94: the particles p1..p6 get the
\* attributes theta = random() * pi and phi = random() * 2 pi, drawn in this
\* order; the values are kept in units of pi/Modulus.  The other particles
\* and the vertices are the same in every event.
generate_HEPEVT(event_id, state) ==
    LET d == Draws(state, 12)
    IN  [evt |-> [event_number |-> event_id,
                  attributes |-> [i \in 1..12 |->
                                     IF i % 2 = 1 THEN d[i + 1] ELSE 2 * d[i + 1]]],
         state |-> d[13]]

HepmcArgs ==
    {[type |-> t, events |-> e, seed |-> sd] :
        t \in {None, Some("b"), Some("x")},
        e \in {None} \cup {Some(n) : n \in 1..MaxEvents},
        sd \in {None, Some(1), Some(2)}}

\* A run before it starts: the generator was seeded from the entropy of the
\* operating system when the random module was imported (line 10).
NewRun(entropy) ==
    [pc |-> "start", state |-> entropy, writeASCII |-> FALSE, writeROOT |-> FALSE,
     n_events |-> 0, events |-> <<>>]

InitHepmc ==
    /\ args \in {Some(a) : a \in HepmcArgs}
    /\ run \in [1..2 -> {NewRun(e) : e \in Entropy}]
    /\ pc = "idle"
    /\ options = Options(DEFAULT_YEARS_PATTERN, None, None, <<>>, None)
    /\ matching_opts = None
    /\ selection = None
    /\ current_year = <<>>
    /\ idx = 0
    /\ counter = 0
    /\ fs = [f \in TreeSet |-> TextFile(TextOld)]
    /\ TZ = "host"
    /\ last = None
    /\ error = None
    /\ n_changed = 0
    /\ ls_files = None
    /\ string = <<>>
    /\ years = <<>>
    /\ replaced = None
    /\ replaced_again = None
    /\ PandocIdle
    /\ HelperIdle

\* Lines 118-119: the generator is seeded with args.seed if --type was
\* given, and left as it is otherwise.
SeedIfType(a, state, entropy) ==
    IF a.type # None THEN random_seed(a.seed, entropy) ELSE state

\* Lines 109-171 of run r: the generator is seeded, the kind of output is
\* taken from --type or asked for (with ROOT available; an answer outside
\* a, b, c ends the run), the number of events is taken from --events or
\* asked for, and the output files are opened.
HepmcSetup(r) ==
    /\ args # None
    /\ run[r].pc = "start"
    /\ \E entropy \in Entropy, rootAvailable \in BOOLEAN,
          answer \in {"a", "b", "x"}, asked \in 1..MaxEvents :
          LET a == args[1]
              writeOption == IF a.type = None THEN answer ELSE a.type[1]
              exits == rootAvailable /\ writeOption \notin {"a", "b", "c"}
          IN  run' = [run EXCEPT ![r] =
                        [pc |-> IF exits THEN "exited" ELSE "loop",
                         state |-> SeedIfType(a, run[r].state, entropy),
                         writeASCII |-> ~exits /\ (~rootAvailable \/ writeOption \in {"b", "c"}),
                         writeROOT |-> ~exits /\ rootAvailable /\ writeOption \in {"a", "c"},
                         n_events |-> IF exits THEN 0
                                      ELSE IF a.events = None THEN asked
                                      ELSE a.events[1],
                         events |-> <<>>]]
    /\ UNCHANGED <<args, options, matching_opts>>
    /\ UNCHANGED <<mainVars, replaceVars, pandocVars, helperVars>>

\* Lines 173-180 of run r: one iteration of the event loop.
HepmcEvent(r) ==
    /\ args # None
    /\ run[r].pc = "loop"
    /\ Len(run[r].events) < run[r].n_events
    /\ \E g \in {generate_HEPEVT(Len(run[r].events), run[r].state)} :
          run' = [run EXCEPT ![r].events = Append(@, g.evt), ![r].state = g.state]
    /\ UNCHANGED <<args, options, matching_opts>>
    /\ UNCHANGED <<mainVars, replaceVars, pandocVars, helperVars>>

\* Lines 183-186 of run r: the output files are closed.
HepmcClose(r) ==
    /\ args # None
    /\ run[r].pc = "loop"
    /\ Len(run[r].events) = run[r].n_events
    /\ run' = [run EXCEPT ![r].pc = "done"]
    /\ UNCHANGED <<args, options, matching_opts>>
    /\ UNCHANGED <<mainVars, replaceVars, pandocVars, helperVars>>

NextHepmc == \E r \in 1..2 : HepmcSetup(r) \/ HepmcEvent(r) \/ HepmcClose(r)

SpecHepmc == InitHepmc /\ [][NextHepmc]_vars

(***************************************************************************)
(* Properties                                                              *)
(***************************************************************************)
\* Two strings share a non-empty common prefix: both are non-empty and
\* start with the same character.
SharesLeadingChar(a, b) == Len(a) > 0 /\ Len(b) > 0 /\ a[1] = b[1]

NormalizedExcludes == convert_to_relative_paths(options.exclude)[1]

SharesWithSomeExcluded(c) ==
    \E j \in 1..Len(NormalizedExcludes) : SharesLeadingChar(c, NormalizedExcludes[j])

\* C1: whenever get_file_paths returns, its result is the candidate list, in
\* order, without exactly the candidates that share a first character with
\* some (normalized) excluded path.
C1_ExclusionByTextualPrefix ==
    (selection # None /\ selection[1].status = "ok") =>
        selection[1].file_paths =
            SelectSeq(selection[1].candidates, LAMBDA c : ~SharesWithSomeExcluded(c))

\* The spec's example: with exclude list [src], src/a.py and srcfoo/b.py are
\* both dropped and README stays.
C1_Witness ==
    /\ selection # None
    /\ selection[1].status = "ok"
    /\ options.exclude = <<p_src>>
    /\ selection[1].candidates = <<p_readme, p_src_a, p_srcfoo_b>>
    /\ selection[1].file_paths = <<p_readme>>

HasBackslash(opt) == opt # None /\ \E i \in 1..Len(opt[1]) : opt[1][i] = "\\"

IsYear(s) == Len(s) = 4 /\ s[1] \in {"1", "2"} /\ \A i \in 2..4 : s[i] \in Digits

IsRange(s) ==
    Len(s) = 9 /\ IsYear(SubSeq(s, 1, 4)) /\ s[5] = "-" /\ IsYear(SubSeq(s, 6, 9))

\* The first match of the pattern in `string`, and whether its year span
\* (group 1) touches a hyphen on either side.
FirstMatch == re_search(match_pattern(matching_opts), string)

SpanTouchesHyphen ==
    LET st == FirstMatch.caps[1][1]
        en == FirstMatch.caps[1][2]
    IN  \/ (st > 1 /\ string[st - 1] = "-")
        \/ (en <= Len(string) /\ string[en] = "-")

\* C2, as claimed: for every text, pattern and target, the second
\* application returns the text the first one returned.
C2_Idempotent ==
    replaced_again # None =>
        /\ replaced_again[1].status = "ok"
        /\ replaced_again[1].string = replaced[1].string

\* C2, amended: with the default years regex and literals free of
\* backslashes, the second application returns the text of the first when
\* the target is a range YYYY-YYYY, or a single year and the year span of
\* the first match touches no hyphen.
C2_IdempotentDefaultPattern ==
    ( /\ replaced_again # None
      /\ options.years = DEFAULT_YEARS_PATTERN
      /\ ~HasBackslash(options.prependix) /\ ~HasBackslash(options.appendix)
      /\ \/ IsRange(years)
         \/ IsYear(years) /\ (FirstMatch.found => ~SpanTouchesHyphen) ) =>
        /\ replaced_again[1].status = "ok"
        /\ replaced_again[1].string = replaced[1].string

\* A text the first application changed, applied twice with a range target.
C2_Witness ==
    /\ replaced_again # None
    /\ options.years = DEFAULT_YEARS_PATTERN
    /\ IsRange(years)
    /\ replaced[1].string # string
    /\ replaced_again[1].replaced_years = Some(years)

\* The year of each line of a `git log` output.
LogYears(stdout) == LET lines == splitlines(stdout) IN [i \in 1..Len(lines) |-> int(lines[i])]

QueriedHistory == last # None /\ last[1].proc.returncode = 0

NonEmptyHistory == QueriedHistory /\ Len(last[1].proc.stdout) > 0

\* C3, as claimed: the initial year is the smallest year of the listing,
\* whatever its order.
C3_InitialYearIsSmallest ==
    NonEmptyHistory =>
        \A i \in 1..Len(LogYears(last[1].proc.stdout)) :
            int(last[1].initial_year) <= LogYears(last[1].proc.stdout)[i]

\* C3, amended: the initial year is the year of the last listed revision;
\* it is the smallest year of the listing when the listing is in
\* non-increasing order of year (newest first).
C3_InitialYearIsLastListed ==
    NonEmptyHistory =>
        LET ys == LogYears(last[1].proc.stdout)
        IN  /\ last[1].initial_year = FormatYear(ys[Len(ys)])
            /\ (\A i \in 1..(Len(ys) - 1) : ys[i] >= ys[i + 1]) =>
                  \A i \in 1..Len(ys) : int(last[1].initial_year) <= ys[i]

\* A listing of two revisions of different years, newest first.
C3_Witness ==
    /\ NonEmptyHistory
    /\ LogYears(last[1].proc.stdout) = <<2025, 2024>>
    /\ last[1].initial_year = FormatYear(2024)

\* C4: update_copyright_years returns True exactly when the file's content
\* after the call differs from its content before, and the count main
\* reports is the number of calls that changed a file.
C4_TrueIffContentChanged ==
    /\ (last # None /\ last[1].raised = "") =>
          (last[1].ret <=> last[1].after # last[1].before)
    /\ pc = "done" => counter = n_changed

\* C5: the file is opened for writing only when a match was found and the
\* replaced text differs from the text read.
C5_WritesOnlyWhenTextDiffers ==
    (last # None /\ last[1].wrote) =>
        /\ last[1].before.kind = "text"
        /\ re_search(match_pattern(matching_opts), last[1].before.content).found
        /\ last[1].after.content # last[1].before.content

\* C6: the text returned is the input with the span of the first (leftmost)
\* match replaced by the replacement; the text before and after that span,
\* later matches included, is as it was.
C6_OnlyFirstMatchRewritten ==
    (replaced # None /\ replaced[1].status = "ok" /\ FirstMatch.found) =>
        replaced[1].string =
            SubSeq(string, 1, FirstMatch.start - 1)
            \o replace_pattern(matching_opts, years)
            \o SubSeq(string, FirstMatch.end, Len(string))

\* A text with a second match after the first, which stays.
C6_Witness ==
    /\ replaced # None
    /\ replaced[1].status = "ok"
    /\ FirstMatch.found
    /\ re_search(match_pattern(matching_opts),
                 SubSeq(string, FirstMatch.end, Len(string))).found
    /\ replaced[1].string # string

\* C7: for a text the pattern does not match, the function returns the text
\* unchanged with None, and raises nothing.
C7_NoMatchReturnsInput ==
    (replaced # None /\ ~FirstMatch.found) =>
        replaced[1] = [status |-> "ok", string |-> string, replaced_years |-> None]

\* A non-empty text without a match, under a pattern with a prependix.
C7_Witness ==
    /\ replaced # None
    /\ ~FirstMatch.found
    /\ Len(string) > 0
    /\ options.prependix # None
    /\ replaced[1].replaced_years = None

\* C8: the year string is the initial year alone (4 digits) when the initial
\* year equals the current year, and INITIAL-CURRENT when it is smaller.
C8_YearStringByCase ==
    QueriedHistory =>
        LET i == int(last[1].initial_year)
            c == int(current_year)
        IN  /\ i = c => (last[1].years = FormatYear(i) /\ Len(last[1].years) = 4)
            /\ i < c => last[1].years = FormatYear(i) \o <<"-">> \o FormatYear(c)

\* Both cases: a history that starts in the current year, or before it.
C8_Witness ==
    /\ NonEmptyHistory
    /\ int(last[1].initial_year) < int(current_year)
    /\ last[1].years = FormatYear(2024) \o <<"-">> \o FormatYear(2025)
    /\ last[1].wrote

\* C9: with an empty history the initial year and the year string are the
\* current year, and a text file with a match is rewritten with it.
C9_EmptyHistoryUsesCurrentYear ==
    (QueriedHistory /\ Len(last[1].proc.stdout) = 0) =>
        /\ last[1].initial_year = current_year
        /\ last[1].years = current_year
        /\ ( /\ last[1].before.kind = "text"
             /\ re_search(match_pattern(matching_opts), last[1].before.content).found ) =>
              /\ last[1].ret
              /\ last[1].wrote
              /\ LET m == re_search(match_pattern(matching_opts), last[1].before.content)
                     text == last[1].before.content
                 IN  last[1].after.content =
                         SubSeq(text, 1, m.caps[1][1] - 1) \o current_year
                         \o SubSeq(text, m.caps[1][2], Len(text))

\* A file with no history whose copyright line was rewritten.
C9_Witness ==
    /\ QueriedHistory
    /\ Len(last[1].proc.stdout) = 0
    /\ last[1].wrote
    /\ last[1].before.content = TextOld

\* C10: the year string is the initial year alone, or FIRST-SECOND with FIRST
\* the initial year, SECOND the current year and FIRST <= SECOND.
C10_NeverDescending ==
    QueriedHistory =>
        LET parts == Split(last[1].years, "-")
        IN  /\ Len(parts) \in {1, 2}
            /\ parts[1] = last[1].initial_year
            /\ IsYear(parts[1])
            /\ Len(parts) = 2 =>
                  /\ parts[2] = current_year
                  /\ int(parts[1]) <= int(parts[2])

\* An initial year later than the current year.
C10_Witness ==
    /\ QueriedHistory
    /\ int(last[1].initial_year) > int(current_year)
    /\ last[1].years = last[1].initial_year

(***************************************************************************)
(* Skipped files, failing queries                                          *)
(***************************************************************************)
\* A step of main's loop: one call of update_copyright_years, which returns
\* (idx advances) or raises (main is aborted).
CallStep == pc = "loop" /\ (idx' = idx + 1 \/ pc' = "aborted")

\* The pattern has no match in a text file.
NoMatchIn(file) ==
    /\ file.kind = "text"
    /\ ~re_search(match_pattern(matching_opts), file.content).found

QueryFailed ==
    \/ ls_files # None /\ ls_files[1].returncode # 0
    \/ last # None /\ last[1].proc.returncode # 0

\* C12: whenever every version-control query succeeds, main is not
\* interrupted, whatever the state of the candidate files (not text, no
\* copyright line, not openable as a regular file).
C12_BatchNeverInterrupted ==
    pc = "aborted" => QueryFailed

\* C13: a `git log` that exits non-zero makes update_copyright_years raise an
\* error with git's standard-error text before the file is read or written,
\* and main is aborted there: the working tree, with the files rewritten
\* before, stays as it is, no further file is processed and main never gets
\* to its summary.
C13_HistoryFailureAborts ==
    /\ [][(CallStep /\ last'[1].proc.returncode # 0)
          => (/\ pc' = "aborted"
              /\ error' = Some([type |-> "Exception",
                                message |-> last'[1].proc.stderr])
              /\ ~last'[1].did_read
              /\ ~last'[1].wrote
              /\ fs' = fs
              /\ idx' = idx
              /\ counter' = counter)]_vars
    /\ [][pc = "aborted" => UNCHANGED vars]_vars

\* The second `git log` of a run failed after the first file was rewritten.
C13_Witness ==
    /\ pc = "aborted"
    /\ idx = 1
    /\ n_changed = 1
    /\ last[1].proc.returncode # 0
    /\ last[1].file_path = selection[1].file_paths[2]
    /\ fs[FileKey(selection[1].file_paths[1])] # TextFile(TextOld)
    /\ error[1].message = "fatal: git log"

\* C14: without a -f list, a `git ls-files` that exits non-zero makes
\* get_file_paths raise an error with git's standard-error text, and main is
\* aborted before any file is queried, read or written.
C14_ListingFailureAborts ==
    /\ [][(pc = "start" /\ pc' # "start")
          => (/\ fs' = fs
              /\ last' = None
              /\ (options.files = None /\ ls_files'[1].returncode # 0)
                     => (/\ pc' = "aborted"
                         /\ selection'[1].status = "Exception"
                         /\ error' = Some([type |-> "Exception",
                                           message |-> ls_files'[1].stderr])))]_vars
    /\ [][pc = "aborted" => UNCHANGED vars]_vars

\* main was aborted by a failed `git ls-files`, with no call made.
C14_Witness ==
    /\ pc = "aborted"
    /\ options.files = None
    /\ ls_files # None
    /\ ls_files[1].returncode = 128
    /\ error[1].message = "fatal: git ls-files"
    /\ last = None
    /\ idx = 0

\* No entry of a list occurs twice in it.
NoDuplicates(list) ==
    \A i, j \in 1..Len(list) : list[i] = list[j] => i = j

\* C15: the file list get_file_paths returns contains no path twice.
C15_NoPathTwice ==
    (selection # None /\ selection[1].status = "ok")
        => NoDuplicates(selection[1].file_paths)

(***************************************************************************)
(* End to end, candidates                                                  *)
(***************************************************************************)
\* The places of a text where lit occurs.
Occurrences(text, lit) ==
    {i \in 1..(Len(text) - Len(lit) + 1) : SubSeq(text, i, i + Len(lit) - 1) = lit}

\* The last call rewrote its file with a range: the current year is later
\* than the initial year.
WroteRange ==
    /\ last # None
    /\ last[1].wrote
    /\ int(current_year) > int(last[1].initial_year)

\* The range Y0-C of the last call.
RangeWritten == last[1].initial_year \o <<"-">> \o current_year

NormalizedIncludes == convert_to_relative_paths(options.files[1])[1]

StartsWith(s, prefix) ==
    Len(s) >= Len(prefix) /\ SubSeq(s, 1, Len(prefix)) = prefix

\* The file f of the working directory lies, at any depth, in directory dir.
Below(f, dir) == dir = p_dot \/ (Len(f) > Len(dir) + 1 /\ StartsWith(f, dir \o <<"/">>))

\* The candidate c comes from the listed path p: it is p, or a path under p.
ComesFrom(c, p) == c = p \/ (Len(c) > Len(p) + 1 /\ StartsWith(c, p \o <<"/">>))

ExistingSet == {f \in TreeSet : fs[f].kind # "missing"}

CannotOpen == last # None /\ last[1].raised = "OSError"

UTCYears == {FormatYear(gmtime(clock)) : clock \in Clocks}

\* C20: every `git log` runs with TZ=UTC0 in the environment; the current
\* year is the UTC year of the clock, read before the first file is
\* processed and the same for every file of the run, and it is the year
\* the initial year of each file is compared with.
C20_YearsInUTC ==
    /\ [](last # None => (last[1].TZ = "UTC0" /\ TZ = "UTC0"))
    /\ [](pc \in {"loop", "done"} => current_year \in UTCYears)
    /\ [](QueriedHistory =>
            last[1].years \in {last[1].initial_year,
                               last[1].initial_year \o <<"-">> \o current_year})
    /\ [][/\ pc = "start" => last' = None
          /\ pc # "start" => current_year' = current_year]_vars

\* The second file of a run, queried under TZ=UTC0 and given a range that
\* ends in the UTC year read at the start.
C20_Witness ==
    /\ idx = 2
    /\ last[1].TZ = "UTC0"
    /\ current_year = Y(2025)
    /\ last[1].years = Y(2024) \o <<"-">> \o Y(2025)
    /\ last[1].file_path = selection[1].file_paths[2]

(***************************************************************************)
(* The order of the steps of one call                                      *)
(***************************************************************************)
\* The original statement of C21: the file is read, and a non-text file is
\* skipped, before the history is queried, so a call on a non-text file
\* returns False whatever `git log` does, and a query that failed was made
\* on a file already read.
C21_ReadBeforeQuery ==
    last # None =>
        /\ last[1].before.kind = "binary" =>
              (last[1].raised = "" /\ last[1].ret = FALSE)
        /\ last[1].proc.returncode # 0 => last[1].did_read

\* C21: in every call the history is queried first and the years are
\* computed from it; the file is opened for reading only after a query
\* that succeeded (also a non-text file, which is then skipped), and it is
\* written only after it was read.
C21_QueryBeforeRead ==
    last # None =>
        /\ last[1].did_read => last[1].proc.returncode = 0
        /\ last[1].wrote => last[1].did_read
        /\ last[1].proc.returncode # 0 =>
              (last[1].raised = "Exception" /\ ~last[1].did_read)
        /\ last[1].proc.returncode = 0 =>
              /\ last[1].initial_year = InitialYear(last[1].proc.stdout, current_year)
              /\ last[1].years = YearsString(last[1].initial_year, current_year)
        /\ (last[1].before.kind = "binary" /\ last[1].proc.returncode = 0) =>
              (last[1].did_read /\ last[1].raised = "" /\ last[1].ret = FALSE)

\* `git log` failed for a non-text file, which was never opened.
C21_Witness ==
    /\ last # None
    /\ last[1].before.kind = "binary"
    /\ last[1].proc.returncode # 0
    /\ last[1].raised = "Exception"
    /\ ~last[1].did_read

(***************************************************************************)
(* The groups of the pattern                                               *)
(***************************************************************************)
\* Number of capturing groups of a pattern.
Groups(pat) == GroupNo(pat, Len(pat))

\* The literals as the pattern has to find them in the text.
PrependText == IF options.prependix # None THEN options.prependix[1] \o <<" ">> ELSE <<>>

AppendText == IF options.appendix # None THEN <<" ">> \o options.appendix[1] ELSE <<>>

\* The original statement of C22: the pattern has exactly one capturing
\* group.
C22_ExactlyOneGroup ==
    matching_opts # None => Groups(match_pattern(matching_opts)) = 1

\* C22: the pattern has one capturing group around the years regex, which
\* is group 1, and after it the capturing groups of the years regex itself:
\* three groups with the default regex, one with a regex without groups.
C22_OuterGroupThenGroupsOfYears ==
    matching_opts # None =>
        LET pat == match_pattern(matching_opts)
            o == Len(PrependText) + 1
        IN  /\ Groups(pat) = 1 + Groups(options.years)
            /\ pat[o] = Open
            /\ GroupNo(pat, o) = 1
            /\ CloseOf(pat, o) = o + Len(options.years) + 1
            /\ SubSeq(pat, o + 1, o + Len(options.years)) = options.years
            /\ options.years = DEFAULT_YEARS_PATTERN => Groups(pat) = 3
            /\ options.years = FOUR_DIGITS_PATTERN => Groups(pat) = 1

\* The default regex, three groups, and a range returned as the old years.
C22_Witness ==
    /\ replaced # None
    /\ options.years = DEFAULT_YEARS_PATTERN
    /\ Groups(match_pattern(matching_opts)) = 3
    /\ replaced[1].replaced_years = Some(Y(2024) \o <<"-">> \o Y(2024))

\* C23: wherever the pattern matches, the match is the prepend literal and
\* a space, the year span, a space and the append literal, each literal
\* found character for character; group 1 is the year span, which the
\* years regex matches on its own, and it is the old-years value that
\* replace_copyright_years returns.
C23_GroupOneIsYearSpan ==
    FirstMatch.found =>
        LET m == FirstMatch
            span == Group(string, m, 1)
            alone == MatchAt(options.years, span, 1)
        IN  /\ SubSeq(string, m.start, m.start + Len(PrependText) - 1) = PrependText
            /\ SubSeq(string, m.end - Len(AppendText), m.end - 1) = AppendText
            /\ m.caps[1] = <<m.start + Len(PrependText), m.end - Len(AppendText)>>
            /\ alone.ok
            /\ alone.end = Len(span) + 1
            /\ (replaced # None /\ replaced[1].status = "ok")
                  => replaced[1].replaced_years = Some(span)

\* 'C 2024-2024' under prependix C: the old years are the range alone.
C23_Witness ==
    /\ replaced # None
    /\ options.prependix = Some(<<"C">>)
    /\ string = <<"C", " ">> \o Y(2024) \o <<"-">> \o Y(2024)
    /\ FirstMatch.found
    /\ FirstMatch.caps[1] = <<3, 12>>
    /\ replaced[1].replaced_years = Some(Y(2024) \o <<"-">> \o Y(2024))


\* C24: when the listing of version control did not fail, get_file_paths
\* returns a list: the removal loop raises nothing, also for a candidate
\* that shares a prefix with two excluded paths.
C24_RemovalNeverRaises ==
    (/\ selection # None
     /\ ls_files # None => ls_files[1].returncode = 0
     /\ \A i \in 1..Len(options.exclude) : relpath(options.exclude[i]) # None
     /\ options.files # None =>
            \A i \in 1..Len(options.files[1]) : relpath(options.files[1][i]) # None)
        => selection[1].status = "ok"


\* C25: a call that writes the file changes the year span (group 1 of the
\* first match) to the new year string and nothing else: the text before
\* the span, the literals around it and the text after it, line endings
\* included, are in the file as they were.
C25_OnlyYearSpanChanges ==
    (last # None /\ last[1].wrote) =>
        LET before == last[1].before.content
            m == re_search(match_pattern(matching_opts), before)
        IN  /\ m.found
            /\ last[1].after.content =
                  SubSeq(before, 1, m.caps[1][1] - 1) \o last[1].years \o
                  SubSeq(before, m.caps[1][2], Len(before))


\* The files of the tree that the selected list names.
SelectedFiles ==
    IF selection = None \/ selection[1].status # "ok" THEN {}
    ELSE {relpath(selection[1].file_paths[i])[1] :
            i \in 1..Len(selection[1].file_paths)}

\* C26: every call of update_copyright_years is on an entry of the selected
\* list, and a step changes no file but the one of that call: a file that
\* is not in the selected list keeps its content through the whole run.
C26_OnlySelectedFilesTouched ==
    [][/\ last' # last =>
            /\ relpath(last'[1].file_path)[1] \in SelectedFiles
            /\ selection' = selection
       /\ \A f \in TreeSet :
            fs'[f] # fs[f] =>
                /\ f \in SelectedFiles
                /\ last' # last
                /\ f = relpath(last'[1].file_path)[1]]_vars

\* A finished run with -x srcfoo: README was rewritten, the excluded
\* srcfoo/b.py and src/a.py are not in the list and srcfoo/b.py is as it was.
C26_Witness ==
    /\ pc = "done"
    /\ options.exclude = <<p_srcfoo>>
    /\ options.files = None
    /\ SelectedFiles = {p_readme}
    /\ n_changed = 1
    /\ fs[p_readme] # TextFile(TextOld)
    /\ fs[p_srcfoo_b] = TextFile(TextOld)


\* C27: when pandoc2latex has exited, by returning or by raising, the
\* temporary file it created for pandoc no longer exists.
C27_TmpFileGoneAtExit ==
    pandoc_pc \in {"returned", "raised"} => tmp_dir[tmp[1]] = None


\* C28: glob_dir copies every file under input_dir to the same relative
\* path under output_dir, except exactly the files whose name ends in '.in'.
C28_AllButDotInCopied ==
    (function = "glob_dir" /\ helper_pc # "call") =>
        /\ helper_pc = "returned"
        /\ output_tree =
              {p \in input_tree : ~endswith(basename(p), <<".", "i", "n">>)}

\* The files under input_dir that are LaTeX files, as the paths written.
TexFiles ==
    {PathUnder(input_dir, p) : p \in {q \in input_tree :
        endswith(basename(q), <<".", "t", "e", "x">>)}}

\* The path of line i of the output file.
LinePath(i) == SubSeq(output_file[1][i], 8, Len(output_file[1][i]) - 2)

IsIndexTex(path) == endswith(path, <<"/">> \o INDEX_TEX)

DirOf(path) ==
    SubSeq(path, 1, CHOOSE k \in 1..Len(path) :
                        path[k] = "/" /\ \A j \in (k + 1)..Len(path) : path[j] # "/")

\* C29: the output has one \input line for each .tex file under input_dir
\* and no other line; a directory's _index.tex comes before every other
\* .tex file of that directory, and two files that are not an _index.tex
\* are in alphabetical order of their paths.
C29_IndexFirstThenAlphabetical ==
    (function = "create_latex_input" /\ helper_pc = "returned") =>
        LET n == Len(output_file[1]) IN
        /\ \A i \in 1..n : output_file[1][i] = InputLine(LinePath(i))
        /\ {LinePath(i) : i \in 1..n} = TexFiles
        /\ n = Cardinality(TexFiles)
        /\ \A i, j \in 1..n :
              i < j =>
                  /\ ~(IsIndexTex(LinePath(j)) /\ DirOf(LinePath(i)) = DirOf(LinePath(j)))
                  /\ (~IsIndexTex(LinePath(i)) /\ ~IsIndexTex(LinePath(j)))
                        => str_lt(LinePath(i), LinePath(j))


\* C30: two finished runs on a command line with --seed that generated the
\* same number of events generated the same events, random attributes
\* included, with or without --type.
C30_SameSeedSameEvents ==
    (/\ args # None
     /\ args[1].seed # None
     /\ run[1].pc = "done"
     /\ run[2].pc = "done"
     /\ run[1].n_events = run[2].n_events)
        => run[1].events = run[2].events

=============================================================================
